---- MODULE Spec2Model ----
(***************************************************************************)
(* Model of AzionVectorStore (azion-react-agent, langchain-components):    *)
(* schema setup, chunked writes, the three searches and the hybrid merge,  *)
(* against the database service and the embeddings provider.               *)
(*                                                                         *)
(* One operation of the store runs at a time.  Every `await` of the source *)
(* splits its method in two actions: the one that issues the external call *)
(* and the one that receives the collaborator's answer and runs the code   *)
(* up to the next await.  The answer of a collaborator is chosen when the  *)
(* call returns.                                                           *)
(*                                                                         *)
(* A text (document content, metadata value) is represented by what the    *)
(* code reads of it here: its identity, its UTF-8 byte length and its       *)
(* characters; an SQL statement by its kind, its columns and its values.    *)
(***************************************************************************)
EXTENDS Integers, Sequences, FiniteSets, TLC

VARIABLES
  expandedMetadata,    \* this.expandedMetadata, set by the constructor
  dbExists,            \* store: the database this.dbName exists
  tables,              \* store: schema objects of the database
  tableColumns,        \* store: the metadata columns of the main table
  stored,              \* store: INSERT statements applied so far, in order
  pc,                  \* position of the running operation
  op,                  \* the running (or last) operation and its arguments
  calls,               \* external calls of the running operation, in issue order
  originalStatements,  \* createInsertChunks: let originalStatements
  iter,                \* createInsertChunks: the array the for-of iterates
  idx,                 \* createInsertChunks: position of the for-of in iter
  array,               \* createInsertChunks: let array
  insertChunk,         \* createInsertChunks: let insertChunk
  chunks,              \* addVectors: const chunks; insertChunks: its argument
  chunkIdx,            \* insertChunks: position of the for-of in chunks
  insertStatements,    \* addVectors: const insertStatements
  outcome,             \* how the operation ended: returned or raised
  result,              \* the value a search returned
  ftsResults,          \* AzionHybridSearch: const ftsResults
  prev,                \* the operation that ran before the current one
  budget               \* operations that may still be started

vars == <<expandedMetadata, dbExists, tables, tableColumns, stored, pc, op, calls,
          originalStatements, iter, idx,
          array, insertChunk, chunks, chunkIdx, insertStatements, outcome, result,
          ftsResults, prev, budget>>

(***************************************************************************)
(* Bounds of the model.                                                    *)
(***************************************************************************)
MaxLen == 4          \* length of the document lists drawn freely
MaxOver == 1         \* uniform lists have up to 2 * maxChunkLength + MaxOver documents
MaxOps == 2          \* operations run one after another in Spec
MaxId == 2           \* document ids of search results are 1..MaxId
MaxResults == 3      \* length of the result lists handed to removeDuplicates
MaxK == 2            \* the quotas kfts and kvector are 0..MaxK
MaxChars == 2        \* length of the contents whose characters are drawn freely
MaxRows == 2         \* rows of the write calls whose metadata is drawn freely
MaxQuery == 4        \* length of the search queries whose characters are drawn freely

(***************************************************************************)
(* createInsertChunks: the two limits.  maxMbSize is 0.8 * 1024 * 1024 =   *)
(* 838860.8, not an integer: it is kept in tenths of a byte, and a byte    *)
(* count n is compared with it as 10 * n.  maxChunkLength is 1000 in the   *)
(* source; it is scaled down to 3 here, so that lists shorter than, as     *)
(* long as and longer than one and two full chunks are all explored.       *)
(***************************************************************************)
maxChunkLength == 3
maxMbSize == 8 * 1024 * 1024

None == "none"

\* this.dbName, this.tableName and the schema objects setupTables names after it
DbName == "db"
MainTable == "t"
VectorIndex == "t_idx"
FtsTable == "t_fts"
InsertTrigger == "insert_into_t_fts"
UpdateTrigger == "update_t_fts"
DeleteTrigger == "delete_t_fts"
Messages == {"e1", "e2"}

\* getStringBytes(str): the UTF-8 length of a text
getStringBytes(str) == str.bytes

\* sum of the byte lengths of arr[lo..hi]
RECURSIVE SumBytes(_, _, _)
SumBytes(arr, lo, hi) ==
  IF lo > hi THEN 0
  ELSE IF lo = hi THEN getStringBytes(arr[lo])
  ELSE LET mid == (lo + hi) \div 2
       IN SumBytes(arr, lo, mid) + SumBytes(arr, mid + 1, hi)

\* getStringBytes(arr.join(' ')): the texts and one space between neighbours
joinBytes(arr) ==
  IF Len(arr) = 0 THEN 0 ELSE SumBytes(arr, 1, Len(arr)) + (Len(arr) - 1)

\* originalStatements.slice(1)
slice1(s) == IF Len(s) = 0 THEN <<>> ELSE Tail(s)

(***************************************************************************)
(* Inputs.  A text is represented by its identity (key), its UTF-8 byte    *)
(* length and its characters; a document carries its content (a text) and  *)
(* its metadata, the list of its keys and values in Object.keys order.     *)
(* Document i of a list has key i, so that a lost, a repeated or a         *)
(* mis-paired row shows.  The byte length of a content stands for the      *)
(* length of the INSERT statement rendered for it.                         *)
(***************************************************************************)
Limit == maxMbSize \div 10
StmtSizes == {1, Limit \div 2, Limit, Limit + 1}

SingleQuote == "'"
DoubleQuote == "\""
Space == " "
Text(key, bytes, chars) == [key |-> key, bytes |-> bytes, chars |-> chars]
Entry(key, value) == [key |-> key, value |-> value]

Doc(i, b) ==
  [pageContent |-> Text(i, b, <<"a">>),
   metadata |-> <<Entry("source", Text("s", 1, <<"s">>))>>]

DocsOfLen(n, sizes) == {[i \in 1..n |-> Doc(i, f[i])] : f \in [1..n -> sizes]}
DocsUpTo(n, sizes) == UNION {DocsOfLen(k, sizes) : k \in 0..n}
\* lists of one-byte statements, which only the count limit splits
UniformDocs == UNION {DocsOfLen(k, {1}) : k \in 0..(2 * maxChunkLength + MaxOver)}

\* embeddings.embedDocuments(texts): one vector per text, in order
embedDocuments(texts) == [i \in 1..Len(texts) |-> <<texts[i].key>>]
VectorsFor(documents) == embedDocuments([i \in 1..Len(documents) |-> documents[i].pageContent])

(***************************************************************************)
(* Write path: rows, statements.                                           *)
(***************************************************************************)
mapRowsFromDocuments(vectors, documents) ==
  [i \in 1..Len(vectors) |->
     [content |-> documents[i].pageContent,
      embedding |-> vectors[i],
      metadata |-> documents[i].metadata]]

\* setupTables: expandedMetadata ? columns : the one metadata column
declaredColumns(columns) == IF expandedMetadata THEN columns ELSE <<"metadata">>

\* Object.keys(metadata), and metadata?.[col] ?? null
Null == [isNull |-> TRUE]
keysOf(metadata) == [j \in 1..Len(metadata) |-> metadata[j].key]
hasKey(metadata, col) == \E j \in 1..Len(metadata) : metadata[j].key = col
valueOf(metadata, col) ==
  IF hasKey(metadata, col)
  THEN metadata[CHOOSE j \in 1..Len(metadata) : metadata[j].key = col].value
  ELSE Null

\* extractMetadataColumns: the keys of the rows of the call, each once, in the
\* order they are first met
RECURSIVE pushKeys(_, _, _)
pushKeys(metadataColumns, keys, j) ==
  IF j > Len(keys) THEN metadataColumns
  ELSE pushKeys(IF \E c \in 1..Len(metadataColumns) : metadataColumns[c] = keys[j]
                THEN metadataColumns
                ELSE Append(metadataColumns, keys[j]),
                keys, j + 1)

RECURSIVE extractMetadataColumnsFrom(_, _, _)
extractMetadataColumnsFrom(rows, i, metadataColumns) ==
  IF i > Len(rows) THEN metadataColumns
  ELSE extractMetadataColumnsFrom(rows, i + 1,
                                  pushKeys(metadataColumns, keysOf(rows[i].metadata), 1))

extractMetadataColumns(rows) == extractMetadataColumnsFrom(rows, 1, <<>>)

\* value.replace(/x/g, y) on the characters of a text
replaceAll(chars, from, to) ==
  [j \in 1..Len(chars) |-> IF chars[j] = from THEN to ELSE chars[j]]

\* escapeQuotes that replaces the single quotes only
escapeQuotesSingleOnly(value) ==
  [value EXCEPT !.chars = replaceAll(@, SingleQuote, Space)]

\* escapeQuotes(value): value.replace(/'/g, " ").replace(/"/g, ' ')
escapeQuotes(value) ==
  [value EXCEPT !.chars = replaceAll(replaceAll(@, SingleQuote, Space), DoubleQuote, Space)]

\* JSON.stringify(row.metadata): the keys and the values, in every value each
\* double quote written as backslash and double quote; a single quote is left
\* as it is
Backslash == "\\"
RECURSIVE stringifyChars(_, _)
stringifyChars(chars, j) ==
  IF j > Len(chars) THEN <<>>
  ELSE (IF chars[j] = DoubleQuote THEN <<Backslash, DoubleQuote>> ELSE <<chars[j]>>)
       \o stringifyChars(chars, j + 1)
JSONstringify(metadata) ==
  [e \in 1..Len(metadata) |->
     Entry(metadata[e].key,
           Text(metadata[e].value.key,
                metadata[e].value.bytes
                  + Len(stringifyChars(metadata[e].value.chars, 1))
                  - Len(metadata[e].value.chars),
                stringifyChars(metadata[e].value.chars, 1)))]

\* the three renderings of a value in createInsertString; escapeQuotes calls
\* value.replace, which throws a TypeError on null
TypeError == [isError |-> TRUE, message |-> "TypeError"]
Threw == [render |-> "threw", value |-> TypeError]
vectorLiteral(value) == [render |-> "vector", value |-> value]
rawLiteral(value) == [render |-> "raw", value |-> value]
escapedLiteral(value) ==
  IF value = Null THEN Threw ELSE [render |-> "escaped", value |-> escapeQuotes(value)]

\* a statement that replaces a stored row instead of adding one
createReplaceString(columnNames, values) ==
  LET rendered ==
        [j \in 1..Len(values) |->
           IF columnNames[j] = "embedding" THEN vectorLiteral(values[j])
           ELSE IF ~expandedMetadata /\ columnNames[j] = "metadata" THEN rawLiteral(values[j])
           ELSE escapedLiteral(values[j])]
  IN [kind |-> "INSERT OR REPLACE", into |-> MainTable, columnNames |-> columnNames,
      values |-> rendered, bytes |-> getStringBytes(values[1]),
      threw |-> \E j \in 1..Len(rendered) : rendered[j].render = "threw"]

\* createInsertString(columnNames, values): the statement, its column list and
\* its rendered values; threw when the rendering of a value threw.  The byte
\* length of the statement is that of its first value, the content.
createInsertString(columnNames, values) ==
  LET rendered ==
        [j \in 1..Len(values) |->
           IF columnNames[j] = "embedding" THEN vectorLiteral(values[j])
           ELSE IF ~expandedMetadata /\ columnNames[j] = "metadata" THEN rawLiteral(values[j])
           ELSE escapedLiteral(values[j])]
  IN [kind |-> "INSERT", into |-> MainTable, columnNames |-> columnNames,
      values |-> rendered, bytes |-> getStringBytes(values[1]),
      threw |-> \E j \in 1..Len(rendered) : rendered[j].render = "threw"]

\* the INSERT statement of a row
createInsertStatement(row, metadataColumns) ==
  IF expandedMetadata
  THEN createInsertString(
         <<"content", "embedding">> \o metadataColumns,
         <<row.content, row.embedding>>
           \o [j \in 1..Len(metadataColumns) |-> valueOf(row.metadata, metadataColumns[j])])
  ELSE createInsertString(<<"content", "embedding", "metadata">>,
                          <<row.content, row.embedding, JSONstringify(row.metadata)>>)

\* createStatements: one statement per row, over the columns of this call; the
\* loop ends at the first statement whose building threw
createStatements(rows) ==
  LET metadataColumns == extractMetadataColumns(rows)
  IN [i \in 1..Len(rows) |-> createInsertStatement(rows[i], metadataColumns)]
threwAt(statements) == {i \in 1..Len(statements) : statements[i].threw}

(***************************************************************************)
(* errorHandler(error, message): raises when the collaborator returned an  *)
(* error, with the error's message.                                        *)
(***************************************************************************)
NoError == [isError |-> FALSE, message |-> None]
BackendError(m) == [isError |-> TRUE, message |-> m]
Errors == {BackendError(m) : m \in Messages}

\* errorHandler that logs the error and does not throw
errorHandlerSilent(error, message) == [status |-> "none", message |-> None]

\* errorHandler that throws its own message, not the error's
errorHandlerOwnMessage(error, message) ==
  IF error.isError
  THEN [status |-> "raised", message |-> message]
  ELSE [status |-> "none", message |-> None]

errorHandler(error, message) ==
  IF error.isError
  THEN [status |-> "raised",
        message |-> IF error.message = None THEN message ELSE error.message]
  ELSE [status |-> "none", message |-> None]

Running == [status |-> "none", message |-> None]
Returned == [status |-> "ok", message |-> None]

\* an external call is issued; its answer arrives: the last call returns with error
\* (NoError when the collaborator succeeded)
Call(api, arg) == [api |-> api, arg |-> arg, returned |-> FALSE, error |-> NoError]
Issue(api, arg) == Append(calls, Call(api, arg))
Answer(error) == [calls EXCEPT ![Len(calls)] = [@ EXCEPT !.returned = TRUE, !.error = error]]

(***************************************************************************)
(* Start and end of an operation.                                          *)
(***************************************************************************)
chunkerVars == <<originalStatements, iter, idx, array, insertChunk>>
storeVars == <<dbExists, tables, tableColumns, stored>>
opVars == <<op, outcome, prev, budget, expandedMetadata>>
writeVars == <<chunks, chunkIdx, insertStatements>>
searchVars == <<result, ftsResults>>

ResetChunker ==
  /\ originalStatements' = <<>>
  /\ iter' = <<>>
  /\ idx' = 0
  /\ array' = <<>>
  /\ insertChunk' = <<>>

ResetWrite ==
  /\ chunks' = <<>>
  /\ chunkIdx' = 0
  /\ insertStatements' = <<>>

\* a public method is called: kind names it, args are its arguments
Begin(kind, args, options) ==
  /\ pc = "idle"
  /\ budget > 0
  /\ budget' = budget - 1
  /\ op' = [kind |-> kind, args |-> args, options |-> options]
  /\ prev' = [kind |-> op.kind, options |-> op.options, status |-> outcome.status]
  /\ outcome' = Running
  /\ result' = <<>>
  /\ ftsResults' = <<>>
  /\ UNCHANGED expandedMetadata

\* the method returns (Returned) or raises (a raised outcome of errorHandler)
Finish(o) ==
  /\ pc' = "idle"
  /\ outcome' = o
  /\ UNCHANGED <<op, prev, budget, expandedMetadata>>

(***************************************************************************)
(* addVectors / addDocuments, up to the call of createInsertChunks.        *)
(***************************************************************************)
\* addVectors after await mapRowsFromDocuments: const rows, const
\* insertStatements; a statement whose building threw ends the call, otherwise
\* createInsertChunks is entered
addVectorsBody(vectors, documents) ==
  LET rows == mapRowsFromDocuments(vectors, documents)
      statements == createStatements(rows)
  IN IF threwAt(statements) # {}
     THEN /\ Finish([status |-> "raised", message |-> TypeError.message])
          /\ UNCHANGED <<chunkerVars, writeVars>>
     ELSE /\ insertStatements' = statements
          /\ originalStatements' = statements
          /\ iter' = <<>>
          /\ idx' = 0
          /\ array' = <<>>
          /\ insertChunk' = <<>>
          /\ chunks' = <<>>
          /\ chunkIdx' = 0
          /\ pc' = "createInsertChunks"
          /\ UNCHANGED opVars

AddVectors(vectors, documents) ==
  /\ Begin("addVectors", [vectors |-> vectors, documents |-> documents], None)
  /\ calls' = <<>>
  /\ pc' = "awaitMapRows"
  /\ ResetChunker
  /\ ResetWrite
  /\ UNCHANGED storeVars

\* addDocuments: embeds the texts in one call, then addVectors
AddDocuments(documents) ==
  /\ Begin("addDocuments", [vectors |-> <<>>, documents |-> documents], None)
  /\ calls' = <<Call("embedDocuments", Len(documents))>>
  /\ pc' = "awaitEmbedDocuments"
  /\ ResetChunker
  /\ ResetWrite
  /\ UNCHANGED storeVars

\* the vectors arrived: return this.addVectors(embeddings, documents)
EmbedDocumentsReturn ==
  /\ pc = "awaitEmbedDocuments"
  /\ calls' = Answer(NoError)
  /\ op' = [op EXCEPT !.args.vectors =
              embedDocuments([i \in 1..Len(op.args.documents) |->
                                op.args.documents[i].pageContent])]
  /\ pc' = "awaitMapRows"
  /\ UNCHANGED <<storeVars, outcome, prev, budget, expandedMetadata>>
  /\ UNCHANGED <<chunkerVars, writeVars, searchVars>>

\* const rows = await this.mapRowsFromDocuments(vectors, documents) resumes
MapRowsFromDocumentsReturn ==
  /\ pc = "awaitMapRows"
  /\ addVectorsBody(op.args.vectors, op.args.documents)
  /\ UNCHANGED <<storeVars, calls, searchVars>>

(***************************************************************************)
(* createInsertChunks, one action per step of its control flow.            *)
(***************************************************************************)
\* totalSize < maxMbSize && originalStatements.length < maxChunkLength
fitsOneChunk(statements) ==
  /\ 10 * joinBytes(statements) < maxMbSize
  /\ Len(statements) < maxChunkLength

\* the test without its byte half
closesChunkCountOnly(statement, arr) == Len(arr) + 1 > maxChunkLength

\* the count test written array.length > maxChunkLength
closesChunkLate(statement, arr) ==
  \/ 10 * (getStringBytes(statement) + joinBytes(arr)) > maxMbSize
  \/ Len(arr) > maxChunkLength

\* totalStringBytes > maxMbSize || (array.length+1 > maxChunkLength)
closesChunk(statement, arr) ==
  \/ 10 * (getStringBytes(statement) + joinBytes(arr)) > maxMbSize
  \/ Len(arr) + 1 > maxChunkLength

\* return [originalStatements]
ChunkSingle ==
  /\ pc = "createInsertChunks"
  /\ fitsOneChunk(originalStatements)
  /\ chunks' = <<originalStatements>>
  /\ chunkIdx' = 1
  /\ pc' = "insertChunks"
  /\ UNCHANGED <<storeVars, opVars, calls, chunkerVars, insertStatements>>
  /\ UNCHANGED searchVars

\* "Initiating chunking...": let array = []
ChunkBegin ==
  /\ pc = "createInsertChunks"
  /\ ~fitsOneChunk(originalStatements)
  /\ array' = <<>>
  /\ pc' = "while"
  /\ UNCHANGED <<storeVars, opVars, calls, originalStatements, iter, idx, insertChunk,
                 chunks, chunkIdx, insertStatements>>
  /\ UNCHANGED searchVars

\* a while test that is true of every list
whileTestAlways(statements) == TRUE

\* originalStatements.length > 0
whileTest(statements) == Len(statements) > 0

\* while (originalStatements.length > 0): enters the for-of over the array that
\* originalStatements names now
WhileEnter ==
  /\ pc = "while"
  /\ whileTest(originalStatements)
  /\ iter' = originalStatements
  /\ idx' = 1
  /\ pc' = "for"
  /\ UNCHANGED <<storeVars, opVars, calls, originalStatements, array, insertChunk,
                 chunks, chunkIdx, insertStatements>>
  /\ UNCHANGED searchVars

\* the while loop ends: return insertChunk; insertChunks(chunks) starts
WhileExit ==
  /\ pc = "while"
  /\ ~whileTest(originalStatements)
  /\ chunks' = insertChunk
  /\ chunkIdx' = 1
  /\ pc' = "insertChunks"
  /\ UNCHANGED <<storeVars, opVars, calls, chunkerVars, insertStatements>>
  /\ UNCHANGED searchVars

\* one iteration of the for-of
ForStep ==
  /\ pc = "for"
  /\ idx <= Len(iter)
  /\ LET statement == iter[idx]
     IN IF closesChunk(statement, array)
        THEN /\ insertChunk' = Append(insertChunk, array)
             /\ array' = <<statement>>
             /\ originalStatements' = slice1(originalStatements)
        ELSE /\ array' = Append(array, statement)
             /\ insertChunk' = IF Len(originalStatements) = 1
                               THEN Append(insertChunk, Append(array, statement))
                               ELSE insertChunk
             /\ originalStatements' = slice1(originalStatements)
  /\ idx' = idx + 1
  /\ UNCHANGED <<storeVars, opVars, calls, iter, pc, chunks, chunkIdx, insertStatements>>
  /\ UNCHANGED searchVars

\* the for-of is exhausted: back to the while test
ForExit ==
  /\ pc = "for"
  /\ idx > Len(iter)
  /\ pc' = "while"
  /\ UNCHANGED <<storeVars, opVars, calls, chunkerVars, chunks, chunkIdx, insertStatements>>
  /\ UNCHANGED searchVars

(***************************************************************************)
(* insertChunks: for (const chunk of chunks) await useExecute(dbName,chunk) *)
(***************************************************************************)
\* the for-of stays at the chunk it just executed
sameChunk(i) == i

\* the for-of moves to the chunk after the one it just executed
nextChunk(i) == i + 1

ExecuteChunk ==
  /\ pc = "insertChunks"
  /\ chunkIdx <= Len(chunks)
  /\ calls' = Issue("execute", chunks[chunkIdx])
  /\ pc' = "awaitExecute"
  /\ UNCHANGED <<storeVars, opVars, chunkerVars, chunks, chunkIdx, insertStatements>>
  /\ UNCHANGED searchVars

\* the store accepts an INSERT into a table that exists and has its columns
Accepts(statement) ==
  /\ statement.into \in tables
  /\ \A j \in 3..Len(statement.columnNames) :
       \E c \in 1..Len(tableColumns) : tableColumns[c] = statement.columnNames[j]

\* the store answers: it applied the chunk, or it returns an error and applied
\* nothing; it cannot apply a chunk with a statement it does not accept
ExecuteChunkReturn ==
  /\ pc = "awaitExecute"
  /\ \E error \in {NoError} \cup Errors :
       LET r == errorHandler(error, "Error inserting chunk")
       IN /\ (\E i \in 1..Len(chunks[chunkIdx]) : ~Accepts(chunks[chunkIdx][i])) => error.isError
          /\ calls' = Answer(error)
          /\ stored' = IF error.isError THEN stored ELSE stored \o chunks[chunkIdx]
          /\ IF r.status = "raised"
             THEN /\ Finish(r)
                  /\ UNCHANGED chunkIdx
             ELSE /\ chunkIdx' = nextChunk(chunkIdx)
                  /\ pc' = "insertChunks"
                  /\ UNCHANGED opVars
  /\ UNCHANGED <<dbExists, tables, tableColumns, chunkerVars, chunks, insertStatements>>
  /\ UNCHANGED searchVars

\* the for-of over chunks is exhausted: addVectors returns
InsertChunksDone ==
  /\ pc = "insertChunks"
  /\ chunkIdx > Len(chunks)
  /\ Finish(Returned)
  /\ UNCHANGED <<storeVars, calls, chunkerVars, chunks, chunkIdx, insertStatements>>
  /\ UNCHANGED searchVars

WriteSteps ==
  \/ EmbedDocumentsReturn
  \/ MapRowsFromDocumentsReturn
  \/ ChunkSingle
  \/ ChunkBegin
  \/ WhileEnter
  \/ WhileExit
  \/ ForStep
  \/ ForExit
  \/ ExecuteChunk
  \/ ExecuteChunkReturn
  \/ InsertChunksDone

(***************************************************************************)
(* SpecWrite: one write call on a store that was set up, with any list of  *)
(* up to MaxLen documents and with longer lists of one-byte statements.    *)
(***************************************************************************)
\* three statements of 0.5 MiB, 0.5 MiB and 0.1 MiB
MiB == 1024 * 1024
ExampleSizes == <<MiB \div 2, MiB \div 2, MiB \div 10>>
ExampleDocs == [i \in 1..3 |-> Doc(i, ExampleSizes[i])]

WriteDocs == DocsUpTo(MaxLen, StmtSizes) \cup UniformDocs \cup {ExampleDocs}

InitWrite ==
  /\ expandedMetadata = FALSE
  /\ dbExists = TRUE
  /\ tables = {MainTable, VectorIndex}
  /\ tableColumns = <<"metadata">>
  /\ stored = <<>>
  /\ pc = "idle"
  /\ op = [kind |-> None, args |-> None, options |-> None]
  /\ calls = <<>>
  /\ originalStatements = <<>>
  /\ iter = <<>>
  /\ idx = 0
  /\ array = <<>>
  /\ insertChunk = <<>>
  /\ chunks = <<>>
  /\ chunkIdx = 0
  /\ insertStatements = <<>>
  /\ outcome = Running
  /\ result = <<>>
  /\ ftsResults = <<>>
  /\ prev = [kind |-> None, options |-> None, status |-> None]
  /\ budget = 1

\* a caller calls addVectors with index-aligned vectors and documents
CallAddVectors ==
  /\ pc = "idle"
  /\ \E documents \in WriteDocs : AddVectors(VectorsFor(documents), documents)

CallAddDocuments ==
  /\ pc = "idle"
  /\ \E documents \in WriteDocs : AddDocuments(documents)

NextWrite ==
  \/ CallAddVectors
  \/ CallAddDocuments
  \/ WriteSteps

SpecWrite == InitWrite /\ [][NextWrite]_vars

\* createInsertChunks is synchronous code: once it is entered, each of its
\* statements is executed when its turn has come
ChunkSteps ==
  \/ ChunkSingle
  \/ ChunkBegin
  \/ WhileEnter
  \/ WhileExit
  \/ ForStep
  \/ ForExit

SpecWriteFair == InitWrite /\ [][NextWrite]_vars /\ WF_vars(ChunkSteps)

(***************************************************************************)
(* SpecStatements: the statements of one addVectors call, built in plain    *)
(* and in expanded mode from up to MaxRows rows.  The content of the first  *)
(* row is any text of up to MaxChars characters, quotes among them; every   *)
(* row carries no metadata, one key, or two keys.                           *)
(***************************************************************************)
Chars == {"a", SingleQuote, DoubleQuote}
Contents == UNION {[1..n -> Chars] : n \in 0..MaxChars}
QuotedContent == <<SingleQuote, "a", DoubleQuote>>
Metadatas ==
  {<<>>,
   <<Entry("topic", Text("x", 1, <<"x">>))>>,
   <<Entry("topic", Text("x", 1, <<"x">>)),
     Entry("author", Text("o", 3, <<"o", SingleQuote, DoubleQuote>>))>>}

StatementDocs ==
  UNION {{[i \in 1..n |->
             [pageContent |-> IF i = 1 THEN Text(i, Len(c), c)
                                       ELSE Text(i, Len(QuotedContent), QuotedContent),
              metadata |-> m[i]]] :
            c \in Contents, m \in [1..n -> Metadatas]} : n \in 1..MaxRows}

InitStatements ==
  /\ expandedMetadata \in BOOLEAN
  /\ dbExists = TRUE
  /\ tables = {MainTable, VectorIndex}
  /\ tableColumns = declaredColumns(<<"topic">>)
  /\ stored = <<>>
  /\ pc = "awaitMapRows"
  /\ \E documents \in StatementDocs :
       op = [kind |-> "addVectors",
             args |-> [vectors |-> VectorsFor(documents), documents |-> documents],
             options |-> None]
  /\ calls = <<>>
  /\ originalStatements = <<>>
  /\ iter = <<>>
  /\ idx = 0
  /\ array = <<>>
  /\ insertChunk = <<>>
  /\ chunks = <<>>
  /\ chunkIdx = 0
  /\ insertStatements = <<>>
  /\ outcome = Running
  /\ result = <<>>
  /\ ftsResults = <<>>
  /\ prev = [kind |-> None, options |-> None, status |-> None]
  /\ budget = 0

NextStatements == MapRowsFromDocumentsReturn

SpecStatements == InitStatements /\ [][NextStatements]_vars

(***************************************************************************)
(* Search results.  A result is a [Document, score] pair; of the document  *)
(* the code reads its id and its metadata.searchtype.  NoId is the id of a *)
(* document built without one (undefined).                                 *)
(***************************************************************************)
NoId == 0
SearchTypes == {"similarity", "fulltextsearch", "error"}
SearchResult(id, searchtype, score) ==
  [id |-> id, searchtype |-> searchtype, score |-> score, pageContent |-> [row |-> id]]

\* searchError(error): one document without id, tagged error, with score 0
searchError(error) ==
  <<[id |-> NoId, searchtype |-> "error", score |-> 0, pageContent |-> error]>>

\* !seenIds.has(result[0].id), and the same test always true
notSeenAnything(seenIds, id) == TRUE

notSeen(seenIds, id) == id \notin seenIds

\* similarityCount < kvector, ftsCount < kfts; and both tests on the two counts
\* together against their sum
underQuotaShared(count, quota, other, otherQuota) == count + other < quota + otherQuota

underQuota(count, quota, other, otherQuota) == count < quota

\* the stop test met one entry early
reachedMaxItemsEarly(similarityCount, ftsCount, maxItems) ==
  similarityCount + ftsCount >= maxItems - 1

\* if (similarityCount + ftsCount === maxItems) break
reachedMaxItems(similarityCount, ftsCount, maxItems) ==
  similarityCount + ftsCount = maxItems

\* uniqueResults.unshift(result): the accepted entry put in front
unshift(uniqueResults, r) == <<r>> \o uniqueResults

\* uniqueResults.push(result)
push(uniqueResults, r) == Append(uniqueResults, r)

\* removeDuplicates: the for-of over results from position i on, with the
\* values of uniqueResults, seenIds, similarityCount and ftsCount
RECURSIVE removeDuplicatesFrom(_, _, _, _, _, _, _, _)
removeDuplicatesFrom(results, i, uniqueResults, seenIds, similarityCount, ftsCount, kfts, kvector) ==
  IF i > Len(results) THEN uniqueResults
  ELSE
    LET r == results[i]
        fresh == notSeen(seenIds, r.id)
        asSimilarity == /\ fresh
                        /\ r.searchtype = "similarity"
                        /\ underQuota(similarityCount, kvector, ftsCount, kfts)
        asFts == /\ fresh
                 /\ ~asSimilarity
                 /\ r.searchtype = "fulltextsearch"
                 /\ underQuota(ftsCount, kfts, similarityCount, kvector)
        accepted == asSimilarity \/ asFts
        unique2 == IF accepted THEN push(uniqueResults, r) ELSE uniqueResults
        seen2 == IF accepted THEN seenIds \cup {r.id} ELSE seenIds
        sim2 == IF asSimilarity THEN similarityCount + 1 ELSE similarityCount
        fts2 == IF asFts THEN ftsCount + 1 ELSE ftsCount
    IN IF reachedMaxItems(sim2, fts2, kfts + kvector)
       THEN unique2
       ELSE removeDuplicatesFrom(results, i + 1, unique2, seen2, sim2, fts2, kfts, kvector)

removeDuplicates(results, kfts, kvector) ==
  removeDuplicatesFrom(results, 1, <<>>, {}, 0, 0, kfts, kvector)

(***************************************************************************)
(* SpecMerge: removeDuplicates applied to any list of up to MaxResults     *)
(* results and any quotas up to MaxK.  The scores of a list are distinct    *)
(* and follow neither the order of the list nor its reverse.               *)
(***************************************************************************)
ScoreAt(i) == (2 * i) % (2 * MaxResults + 1)
\* rows of the two channels carry an id; a document without id carries any tag
ResultKinds ==
  ((1..MaxId) \X {"similarity", "fulltextsearch"}) \cup ({NoId} \X SearchTypes)
ResultLists ==
  UNION {{[i \in 1..n |-> SearchResult(f[i][1], f[i][2], ScoreAt(i))] :
            f \in [1..n -> ResultKinds]} : n \in 0..MaxResults}

\* full-text results of ids 1, 2, 3 followed by similarity results of ids 2, 4, 5
ExampleIds == <<1, 2, 3, 2, 4, 5>>
ExampleResults ==
  [i \in 1..6 |->
     SearchResult(ExampleIds[i], IF i <= 3 THEN "fulltextsearch" ELSE "similarity", ScoreAt(i))]

InitMerge ==
  /\ expandedMetadata = FALSE
  /\ dbExists = TRUE
  /\ tables = {}
  /\ tableColumns = <<>>
  /\ stored = <<>>
  /\ pc = "removeDuplicates"
  /\ \E results \in ResultLists \cup {ExampleResults}, kfts \in 0..MaxK, kvector \in 0..MaxK :
       op = [kind |-> "removeDuplicates",
             args |-> [results |-> results, kfts |-> kfts, kvector |-> kvector],
             options |-> None]
  /\ calls = <<>>
  /\ originalStatements = <<>>
  /\ iter = <<>>
  /\ idx = 0
  /\ array = <<>>
  /\ insertChunk = <<>>
  /\ chunks = <<>>
  /\ chunkIdx = 0
  /\ insertStatements = <<>>
  /\ outcome = Running
  /\ result = <<>>
  /\ ftsResults = <<>>
  /\ prev = [kind |-> None, options |-> None, status |-> None]
  /\ budget = 0

RemoveDuplicates ==
  /\ pc = "removeDuplicates"
  /\ result' = removeDuplicates(op.args.results, op.args.kfts, op.args.kvector)
  /\ Finish(Returned)
  /\ UNCHANGED <<storeVars, calls, chunkerVars, writeVars, ftsResults>>

NextMerge == RemoveDuplicates

SpecMerge == InitMerge /\ [][NextMerge]_vars

(***************************************************************************)
(* setupDatabase: handleDatabase, the settling delay, handleTables.        *)
(***************************************************************************)
SetupModes == {"vector", "hybrid"}
SetupColumns == {<<>>, <<"topic">>}
SetupOptions == [mode : SetupModes, columns : SetupColumns]

\* a statement of the creation batch: the object it creates, whether it says
\* IF NOT EXISTS, and the metadata columns it declares
Create(kind, object, ifNotExists, columns) ==
  [kind |-> kind, object |-> object, ifNotExists |-> ifNotExists, columns |-> columns]

\* allStatements without the cut of vector mode
allStatementsUncut(mode, columns) ==
  <<Create("CREATE TABLE", MainTable, FALSE, declaredColumns(columns)),
    Create("CREATE INDEX", VectorIndex, FALSE, <<>>),
    Create("CREATE VIRTUAL TABLE", FtsTable, TRUE, declaredColumns(columns)),
    Create("CREATE TRIGGER", InsertTrigger, TRUE, declaredColumns(columns)),
    Create("CREATE TRIGGER", UpdateTrigger, TRUE, declaredColumns(columns)),
    Create("CREATE TRIGGER", DeleteTrigger, TRUE, <<>>)>>

\* setupTables: let allStatements, cut to the first two in vector mode
allStatements(mode, columns) ==
  LET all == <<Create("CREATE TABLE", MainTable, FALSE, declaredColumns(columns)),
               Create("CREATE INDEX", VectorIndex, FALSE, <<>>),
               Create("CREATE VIRTUAL TABLE", FtsTable, TRUE, declaredColumns(columns)),
               Create("CREATE TRIGGER", InsertTrigger, TRUE, declaredColumns(columns)),
               Create("CREATE TRIGGER", UpdateTrigger, TRUE, declaredColumns(columns)),
               Create("CREATE TRIGGER", DeleteTrigger, TRUE, <<>>)>>
  IN IF mode = "vector" THEN SubSeq(all, 1, 2) ELSE all

\* areTablesSetup that asks for the full-text table in both modes
areTablesSetupBoth(listed, mode) == MainTable \in listed /\ FtsTable \in listed

areTablesSetup(listed, mode) ==
  IF mode = "hybrid"
  THEN MainTable \in listed /\ FtsTable \in listed
  ELSE MainTable \in listed

\* the store: what getTables lists, and what a creation batch does.  A statement
\* without IF NOT EXISTS fails when its object exists.
ListedTables == tables \cap {MainTable, FtsTable}
SqlError == BackendError("already exists")
Objects(statements, k) == {statements[j].object : j \in 1..k}
FailsAt(statements, j) == ~statements[j].ifNotExists /\ statements[j].object \in tables
RunsUpTo(statements, k) == \A j \in 1..k : ~FailsAt(statements, j)

SetupDatabase(options) ==
  /\ Begin("setupDatabase", None, options)
  /\ calls' = <<Call("getDatabases", None)>>
  /\ pc' = "awaitGetDatabases"
  /\ ResetChunker
  /\ ResetWrite
  /\ UNCHANGED storeVars

\* handleDatabase after getDatabases: raise, create the database, or go on to the delay
GetDatabasesReturn ==
  /\ pc = "awaitGetDatabases"
  /\ \E error \in {NoError} \cup Errors :
       LET r == errorHandler(error, "Error getting databases")
       IN IF r.status = "raised"
          THEN /\ calls' = Answer(error)
               /\ Finish(r)
          ELSE /\ calls' = Append(Answer(error),
                                  IF dbExists THEN Call("setTimeout", 15000)
                                              ELSE Call("createDatabase", DbName))
               /\ pc' = IF dbExists THEN "awaitDelay" ELSE "awaitCreateDatabase"
               /\ UNCHANGED opVars
  /\ UNCHANGED <<storeVars, chunkerVars, writeVars, searchVars>>

CreateDatabaseReturn ==
  /\ pc = "awaitCreateDatabase"
  /\ \E error \in {NoError} \cup Errors :
       LET r == errorHandler(error, "Error creating database")
       IN IF r.status = "raised"
          THEN /\ calls' = Answer(error)
               /\ Finish(r)
               /\ UNCHANGED dbExists
          ELSE /\ calls' = Append(Answer(error), Call("setTimeout", 15000))
               /\ dbExists' = TRUE
               /\ pc' = "awaitDelay"
               /\ UNCHANGED opVars
  /\ UNCHANGED <<tables, tableColumns, stored, chunkerVars, writeVars, searchVars>>

\* the 15 s have passed: handleTables calls getTables
DelayElapsed ==
  /\ pc = "awaitDelay"
  /\ calls' = Append(Answer(NoError), Call("getTables", DbName))
  /\ pc' = "awaitGetTables"
  /\ UNCHANGED <<storeVars, opVars, chunkerVars, writeVars, searchVars>>

\* handleTables after getTables: raise, return, or enter setupTables, whose first
\* statement awaits getEmbeddingsDimensions
GetTablesReturn ==
  /\ pc = "awaitGetTables"
  /\ \E error \in {NoError} \cup Errors :
       LET r == errorHandler(error, "Error getting tables")
       IN IF r.status = "raised"
          THEN /\ calls' = Answer(error)
               /\ Finish(r)
          ELSE IF areTablesSetup(ListedTables, op.options.mode)
               THEN /\ calls' = Answer(error)
                    /\ Finish(Returned)
               ELSE /\ calls' = Append(Answer(error), Call("embedQuery", "test"))
                    /\ pc' = "awaitEmbeddingsDimensions"
                    /\ UNCHANGED opVars
  /\ UNCHANGED <<storeVars, chunkerVars, writeVars, searchVars>>

\* setupTables: the statements are built and sent in one useExecute
EmbeddingsDimensionsReturn ==
  /\ pc = "awaitEmbeddingsDimensions"
  /\ calls' = Append(Answer(NoError),
                     Call("execute", allStatements(op.options.mode, op.options.columns)))
  /\ pc' = "awaitSetupExecute"
  /\ UNCHANGED <<storeVars, opVars, chunkerVars, writeVars, searchVars>>

\* the store ran the batch: all of it; or up to a statement that failed or up to a
\* failure of the service, the statements before it kept or rolled back
SetupExecuteReturn ==
  /\ pc = "awaitSetupExecute"
  /\ LET statements == calls[Len(calls)].arg
         n == Len(statements)
     IN \E error \in {NoError, SqlError} \cup Errors, k \in 0..n, kept \in BOOLEAN :
          /\ RunsUpTo(statements, k)
          /\ error = NoError => (k = n /\ kept)
          /\ error = SqlError => (k < n /\ FailsAt(statements, k + 1))
          /\ error \in Errors => k < n
          /\ tables' = IF kept THEN tables \cup Objects(statements, k) ELSE tables
          /\ tableColumns' = IF kept /\ k >= 1 THEN statements[1].columns ELSE tableColumns
          /\ calls' = Answer(error)
          /\ LET r == errorHandler(error, "Error setting up tables")
             IN IF r.status = "raised" THEN Finish(r) ELSE Finish(Returned)
  /\ UNCHANGED <<dbExists, stored, chunkerVars, writeVars, searchVars>>

SetupSteps ==
  \/ GetDatabasesReturn
  \/ CreateDatabaseReturn
  \/ DelayElapsed
  \/ GetTablesReturn
  \/ EmbeddingsDimensionsReturn
  \/ SetupExecuteReturn

(***************************************************************************)
(* The searches.                                                           *)
(***************************************************************************)
\* the two SELECT statements: the table they read, the tag their metadata
\* projection gives every row (generateMetadata), the number of rows asked for
similarityQuery(k) == [kind |-> "SELECT", from |-> MainTable, searchtype |-> "similarity", k |-> k]

\* the characters of a search query: a letter, a digit, a character that is
\* neither, the space and another whitespace character
Tab == "\t"
Alphanumerics == {"a", "1"}
QueryChars == Alphanumerics \cup {"-", Space, Tab}
Queries == UNION {[1..n -> QueryChars] : n \in 0..MaxQuery}

\* query.replace(/[^a-zA-Z0-9\s]/g, ''): letters, digits and whitespace stay
stripNonAlphanumerics(query) ==
  SelectSeq(query, LAMBDA c : c \in Alphanumerics \cup {Space, Tab})

\* String.prototype.split(separator): the pieces between the occurrences of
\* the separator, the empty ones included; a string without it is one piece
RECURSIVE split(_, _)
split(chars, separator) ==
  IF \A j \in 1..Len(chars) : chars[j] # separator
  THEN <<chars>>
  ELSE LET first == CHOOSE j \in 1..Len(chars) :
                      /\ chars[j] = separator
                      /\ \A h \in 1..(j - 1) : chars[h] # separator
       IN <<SubSeq(chars, 1, first - 1)>>
            \o split(SubSeq(chars, first + 1, Len(chars)), separator)

\* Array.prototype.join(separator)
RECURSIVE join(_, _)
join(pieces, separator) ==
  IF Len(pieces) = 0 THEN <<>>
  ELSE IF Len(pieces) = 1 THEN pieces[1]
  ELSE pieces[1] \o separator \o join(Tail(pieces), separator)

\* ' OR ', the operator written as one token between its two spaces
Or == <<Space, "OR", Space>>

\* the MATCH expression of the full-text query
matchExpression(query) == join(split(stripNonAlphanumerics(query), Space), Or)

fullTextQuery(query, kfts) ==
  [kind |-> "SELECT", from |-> FtsTable, searchtype |-> "fulltextsearch", k |-> kfts,
   match |-> matchExpression(query)]

\* the store answers a query with rows (data), with an error and no data, or
\* with neither; rows are at most k rows of distinct ids, in rank order
Min(a, b) == IF a < b THEN a ELSE b
IdLists(n) ==
  UNION {{f \in [1..m -> 1..MaxId] : \A i, j \in 1..m : i # j => f[i] # f[j]} :
           m \in 0..Min(n, MaxId)}
NoData == [hasData |-> FALSE, rows |-> <<>>]
QueryAnswers(q) ==
  {[data |-> NoData, error |-> e] : e \in {NoError} \cup Errors}
  \cup (IF q.from \in tables
        THEN {[data |-> [hasData |-> TRUE,
                         rows |-> [i \in 1..Len(ids) |->
                                     [id |-> ids[i], searchtype |-> q.searchtype,
                                      similarity |-> i]]],
               error |-> NoError] : ids \in IdLists(q.k)}
        ELSE {})

\* mapRows, then mapSearches: one [Document, score] per row
mapRows(rows) == rows
mapSearches(searches) ==
  [i \in 1..Len(searches) |->
     SearchResult(searches[i].id, searches[i].searchtype, searches[i].similarity)]

\* if (!data) { this.errorHandler(error, ...); return this.searchError(error) }
\* ...; return results -- the outcome and the value of the search
searchOutcome(answer, message) ==
  IF ~answer.data.hasData
  THEN LET r == errorHandler(answer.error, message)
       IN IF r.status = "raised"
          THEN [outcome |-> r, value |-> <<>>]
          ELSE [outcome |-> Returned, value |-> searchError(answer.error)]
  ELSE [outcome |-> Returned, value |-> mapSearches(mapRows(answer.data.rows))]

\* [...vectorResults, ...ftsResults]: the similarity results listed first
hybridInputVectorFirst(fts, vectorResults) == vectorResults \o fts

\* AzionHybridSearch: [...ftsResults, ...vectorResults], the input of removeDuplicates
hybridInput(fts, vectorResults) == fts \o vectorResults

AzionSimilaritySearch(kvector) ==
  /\ Begin("AzionSimilaritySearch", [kvector |-> kvector], None)
  /\ calls' = <<Call("embedQuery", "query")>>
  /\ pc' = "awaitEmbedQuery"
  /\ ResetChunker
  /\ ResetWrite
  /\ UNCHANGED storeVars

AzionFullTextSearch(query, kfts) ==
  /\ Begin("AzionFullTextSearch", [query |-> query, kfts |-> kfts], None)
  /\ calls' = <<Call("query", fullTextQuery(query, kfts))>>
  /\ pc' = "awaitFullTextQuery"
  /\ ResetChunker
  /\ ResetWrite
  /\ UNCHANGED storeVars

AzionHybridSearch(query, kfts, kvector) ==
  /\ Begin("AzionHybridSearch", [query |-> query, kfts |-> kfts, kvector |-> kvector], None)
  /\ calls' = <<Call("embedQuery", "query")>>
  /\ pc' = "awaitEmbedQuery"
  /\ ResetChunker
  /\ ResetWrite
  /\ UNCHANGED storeVars

\* the query vector arrived: the similarity search sends its query, the hybrid
\* search enters AzionFullTextSearch
EmbedQueryReturn ==
  /\ pc = "awaitEmbedQuery"
  /\ IF op.kind = "AzionHybridSearch"
     THEN /\ calls' = Append(Answer(NoError), Call("query", fullTextQuery(op.args.query, op.args.kfts)))
          /\ pc' = "awaitFullTextQuery"
     ELSE /\ calls' = Append(Answer(NoError), Call("query", similarityQuery(op.args.kvector)))
          /\ pc' = "awaitSimilarityQuery"
  /\ UNCHANGED <<storeVars, opVars, chunkerVars, writeVars, searchVars>>

FullTextQueryReturn ==
  /\ pc = "awaitFullTextQuery"
  /\ \E answer \in QueryAnswers(calls[Len(calls)].arg) :
       LET s == searchOutcome(answer, "Error performing full-text search")
       IN IF s.outcome.status = "raised"
          THEN /\ calls' = Answer(answer.error)
               /\ Finish(s.outcome)
               /\ UNCHANGED searchVars
          ELSE IF op.kind = "AzionHybridSearch"
               THEN /\ ftsResults' = s.value
                    /\ calls' = Append(Answer(answer.error),
                                       Call("query", similarityQuery(op.args.kvector)))
                    /\ pc' = "awaitSimilarityQuery"
                    /\ UNCHANGED <<opVars, result>>
               ELSE /\ result' = s.value
                    /\ calls' = Answer(answer.error)
                    /\ Finish(Returned)
                    /\ UNCHANGED ftsResults
  /\ UNCHANGED <<storeVars, chunkerVars, writeVars>>

SimilarityQueryReturn ==
  /\ pc = "awaitSimilarityQuery"
  /\ \E answer \in QueryAnswers(calls[Len(calls)].arg) :
       LET s == searchOutcome(answer, "Error performing similarity search")
       IN /\ calls' = Answer(answer.error)
          /\ IF s.outcome.status = "raised"
             THEN /\ Finish(s.outcome)
                  /\ UNCHANGED result
             ELSE /\ result' = IF op.kind = "AzionHybridSearch"
                               THEN removeDuplicates(hybridInput(ftsResults, s.value),
                                                     op.args.kfts, op.args.kvector)
                               ELSE s.value
                  /\ Finish(Returned)
  /\ UNCHANGED <<storeVars, chunkerVars, writeVars, ftsResults>>

SearchSteps ==
  \/ EmbedQueryReturn
  \/ FullTextQueryReturn
  \/ SimilarityQueryReturn

(***************************************************************************)
(* Spec: up to MaxOps operations, one after another, on a store object     *)
(* built over an empty database service.                                   *)
(***************************************************************************)
\* a document whose metadata is the one key topic, alone and followed by a
\* document without metadata
TopicDoc(i) ==
  [pageContent |-> Text(i, 1, <<"a">>), metadata |-> <<Entry("topic", Text("x", 1, <<"x">>))>>]
TopicDocs == {<<TopicDoc(1)>>, <<TopicDoc(1), [TopicDoc(2) EXCEPT !.metadata = <<>>]>>}

\* the write inputs of Spec: no document, one that fits a chunk, two that do
\* not, and the documents with the key topic
SpecDocs == {<<>>} \cup DocsOfLen(1, {1}) \cup DocsOfLen(2, {Limit + 1}) \cup TopicDocs

Init ==
  /\ expandedMetadata \in BOOLEAN
  /\ dbExists = FALSE
  /\ tables = {}
  /\ tableColumns = <<>>
  /\ stored = <<>>
  /\ pc = "idle"
  /\ op = [kind |-> None, args |-> None, options |-> None]
  /\ calls = <<>>
  /\ originalStatements = <<>>
  /\ iter = <<>>
  /\ idx = 0
  /\ array = <<>>
  /\ insertChunk = <<>>
  /\ chunks = <<>>
  /\ chunkIdx = 0
  /\ insertStatements = <<>>
  /\ outcome = Running
  /\ result = <<>>
  /\ ftsResults = <<>>
  /\ prev = [kind |-> None, options |-> None, status |-> None]
  /\ budget = MaxOps

CallSetupDatabase ==
  /\ pc = "idle"
  /\ \E options \in SetupOptions : SetupDatabase(options)

CallSimilaritySearch ==
  /\ pc = "idle"
  /\ \E kvector \in 0..MaxK : AzionSimilaritySearch(kvector)

\* a query of two words
ExampleQuery == <<"a", Space, "1">>

CallFullTextSearch ==
  /\ pc = "idle"
  /\ \E kfts \in 0..MaxK : AzionFullTextSearch(ExampleQuery, kfts)

CallHybridSearch ==
  /\ pc = "idle"
  /\ \E kfts \in 0..MaxK, kvector \in 0..MaxK : AzionHybridSearch(ExampleQuery, kfts, kvector)

CallAddVectorsSmall ==
  /\ pc = "idle"
  /\ \E documents \in SpecDocs : AddVectors(VectorsFor(documents), documents)

CallAddDocumentsSmall ==
  /\ pc = "idle"
  /\ \E documents \in SpecDocs : AddDocuments(documents)

Next ==
  \/ CallSetupDatabase
  \/ SetupSteps
  \/ CallSimilaritySearch
  \/ CallFullTextSearch
  \/ CallHybridSearch
  \/ SearchSteps
  \/ CallAddVectorsSmall
  \/ CallAddDocumentsSmall
  \/ WriteSteps

Spec == Init /\ [][Next]_vars

(***************************************************************************)
(* SpecMatch: one full-text search on a store that is set up in hybrid     *)
(* mode, over every query of at most MaxQuery characters.                  *)
(***************************************************************************)
InitMatch ==
  /\ expandedMetadata \in BOOLEAN
  /\ dbExists = TRUE
  /\ tables = Objects(allStatements("hybrid", <<>>), 6)
  /\ tableColumns = declaredColumns(<<>>)
  /\ stored = <<>>
  /\ pc = "idle"
  /\ op = [kind |-> None, args |-> None, options |-> None]
  /\ calls = <<>>
  /\ originalStatements = <<>>
  /\ iter = <<>>
  /\ idx = 0
  /\ array = <<>>
  /\ insertChunk = <<>>
  /\ chunks = <<>>
  /\ chunkIdx = 0
  /\ insertStatements = <<>>
  /\ outcome = Running
  /\ result = <<>>
  /\ ftsResults = <<>>
  /\ prev = [kind |-> None, options |-> None, status |-> None]
  /\ budget = 1

CallFullTextSearchOfQuery ==
  /\ pc = "idle"
  /\ \E query \in Queries : AzionFullTextSearch(query, MaxK)

NextMatch ==
  \/ CallFullTextSearchOfQuery
  \/ FullTextQueryReturn

SpecMatch == InitMatch /\ [][NextMatch]_vars

(***************************************************************************)
(* Properties of removeDuplicates (SpecMerge).                             *)
(***************************************************************************)
Merged == op.kind = "removeDuplicates" /\ pc = "idle"
CountTagged(results, searchtype) ==
  Cardinality({i \in 1..Len(results) : results[i].searchtype = searchtype})

\* the quota of a channel, and the input positions that were accepted (the
\* entries of an input list differ in their scores); 0 for no input entry
QuotaOf(searchtype) == IF searchtype = "similarity" THEN op.args.kvector ELSE op.args.kfts
PositionOf(r) ==
  IF \E p \in 1..Len(op.args.results) : op.args.results[p] = r
  THEN CHOOSE p \in 1..Len(op.args.results) : op.args.results[p] = r
  ELSE 0
AcceptedPositions == {PositionOf(result[m]) : m \in 1..Len(result)}
AcceptedBefore(i, searchtype) ==
  Cardinality({j \in AcceptedPositions : j < i /\ op.args.results[j].searchtype = searchtype})

\* C3: the output of removeDuplicates has at most kfts + kvector entries, at most
\* kvector of them tagged similarity and at most kfts tagged fulltextsearch; an
\* entry of a channel is left out only when its id was accepted before it or when
\* its own channel had reached its quota before it.
C3_QuotasRespected ==
  Merged =>
    /\ Len(result) <= op.args.kfts + op.args.kvector
    /\ CountTagged(result, "similarity") <= op.args.kvector
    /\ CountTagged(result, "fulltextsearch") <= op.args.kfts
    /\ \A i \in 1..Len(result) : result[i].searchtype \in {"similarity", "fulltextsearch"}
    /\ \A i \in 1..Len(op.args.results) :
         LET r == op.args.results[i]
         IN (i \notin AcceptedPositions /\ r.searchtype \in {"similarity", "fulltextsearch"}) =>
              \/ \E j \in AcceptedPositions : j < i /\ op.args.results[j].id = r.id
              \/ AcceptedBefore(i, r.searchtype) = QuotaOf(r.searchtype)

\* one channel is full and rejected a candidate while the other channel still
\* has quota left
C3_Witness ==
  /\ Merged
  /\ CountTagged(result, "fulltextsearch") = op.args.kfts
  /\ op.args.kfts > 0
  /\ CountTagged(op.args.results, "fulltextsearch") > op.args.kfts
  /\ CountTagged(result, "similarity") < op.args.kvector
  /\ Len(result) < op.args.kfts + op.args.kvector

\* C4: no document id appears twice in the output of removeDuplicates.
C4_NoDuplicateIds ==
  Merged =>
    \A i, j \in 1..Len(result) : i # j => result[i].id # result[j].id

\* an id that the input holds in both channels, and twice in one channel, and
\* that the output holds
C4_Witness ==
  /\ Merged
  /\ \E i, j, k \in 1..Len(op.args.results) :
       /\ i < j /\ j < k
       /\ op.args.results[i].id = op.args.results[j].id
       /\ op.args.results[j].id = op.args.results[k].id
       /\ op.args.results[i].searchtype = "fulltextsearch"
       /\ op.args.results[j].searchtype = "fulltextsearch"
       /\ op.args.results[k].searchtype = "similarity"
       /\ op.args.kfts = 2 /\ op.args.kvector = 2
       /\ \E m \in 1..Len(result) : result[m].id = op.args.results[i].id

IdsOf(results) == [m \in 1..Len(results) |-> results[m].id]
\* removeDuplicates ran on the example input with both quotas 2
ExampleMerged ==
  /\ Merged
  /\ op.args.results = ExampleResults
  /\ op.args.kfts = 2
  /\ op.args.kvector = 2

\* C15 as stated: full-text ids 1, 2, 3 and similarity ids 2, 4, 5 merge under
\* kfts = 2 and kvector = 2 into the ids 1, 2, 4, id 2 being the full-text entry.
C15_ExampleMergesToThree ==
  ExampleMerged =>
    /\ IdsOf(result) = <<1, 2, 4>>
    /\ result[2].searchtype = "fulltextsearch"

\* C15, amended: they merge into the ids 1, 2, 4, 5: two full-text entries, id 2
\* among them, and two similarity entries.
C15_ExampleMergesToFour ==
  ExampleMerged =>
    /\ IdsOf(result) = <<1, 2, 4, 5>>
    /\ result[2].searchtype = "fulltextsearch"
    /\ CountTagged(result, "fulltextsearch") = 2
    /\ CountTagged(result, "similarity") = 2

\* the example was merged: the third full-text entry and the similarity entry
\* of id 2 are left out
C15_Witness ==
  /\ ExampleMerged
  /\ Len(result) = 4
  /\ AcceptedPositions = {1, 2, 5, 6}

Channels == {"similarity", "fulltextsearch"}
\* the channel of input entry q had reached its quota when q was met
ChannelFullAt(q) ==
  AcceptedBefore(q, op.args.results[q].searchtype) >= QuotaOf(op.args.results[q].searchtype)
\* the input of the hybrid search: at most kfts full-text entries of distinct
\* ids, then similarity entries
StandardInput ==
  \E n \in 0..Len(op.args.results) :
    /\ n <= op.args.kfts
    /\ \A i \in 1..n : op.args.results[i].searchtype = "fulltextsearch"
    /\ \A i, j \in 1..n : i # j => op.args.results[i].id # op.args.results[j].id
    /\ \A i \in (n + 1)..Len(op.args.results) : op.args.results[i].searchtype = "similarity"

\* C17 as stated: for every input and all quotas, the occurrence of an id that
\* is in the output of removeDuplicates is the first occurrence of the id in the
\* input.
C17_FirstOccurrenceWins ==
  Merged =>
    \A m \in 1..Len(result) :
      \A q \in 1..(PositionOf(result[m]) - 1) : op.args.results[q].id # result[m].id

\* C17, amended: the occurrence of an id in the output is the first occurrence
\* in the input that is tagged as a channel whose quota was not reached; with
\* the input of the hybrid search (at most kfts full-text entries of distinct
\* ids first) it is the full-text one.
C17_FirstUnderQuotaWins ==
  Merged =>
    /\ \A m \in 1..Len(result) :
         \A q \in 1..(PositionOf(result[m]) - 1) :
           op.args.results[q].id = result[m].id =>
             \/ op.args.results[q].searchtype \notin Channels
             \/ ChannelFullAt(q)
    /\ StandardInput =>
         \A m \in 1..Len(result) :
           (\E q \in 1..Len(op.args.results) :
              /\ op.args.results[q].id = result[m].id
              /\ op.args.results[q].searchtype = "fulltextsearch") =>
             result[m].searchtype = "fulltextsearch"

\* an id that both channels returned is in the output as the full-text entry,
\* next to a similarity entry of another id
C17_Witness ==
  /\ Merged
  /\ StandardInput
  /\ \E p, q \in 1..Len(op.args.results) :
       /\ p < q
       /\ op.args.results[p].id = op.args.results[q].id
       /\ op.args.results[p].searchtype = "fulltextsearch"
       /\ op.args.results[q].searchtype = "similarity"
       /\ p \in AcceptedPositions
       /\ q \notin AcceptedPositions
       /\ \E r \in AcceptedPositions : op.args.results[r].searchtype = "similarity"

\* C18: the output of removeDuplicates is a subsequence of its input: every
\* output entry is an input entry tagged similarity or fulltextsearch, document
\* and score unchanged, and the output entries are in their input order.
C18_OutputIsSubsequence ==
  Merged =>
    \A m \in 1..Len(result) :
      /\ PositionOf(result[m]) \in 1..Len(op.args.results)
      /\ result[m].searchtype \in Channels
      /\ m > 1 => PositionOf(result[m - 1]) < PositionOf(result[m])

\* an output of both channels that skips an input entry and whose scores are
\* neither ascending nor descending
C18_Witness ==
  /\ Merged
  /\ Len(result) = 3
  /\ PositionOf(result[1]) + 1 < PositionOf(result[3])
  /\ \E i, j \in 1..3 : result[i].searchtype # result[j].searchtype
  /\ result[1].score < result[2].score
  /\ result[3].score < result[2].score

(***************************************************************************)
(* Properties of the write path (SpecWrite).                               *)
(***************************************************************************)
RECURSIVE FlattenFrom(_, _)
FlattenFrom(seqs, i) == IF i > Len(seqs) THEN <<>> ELSE seqs[i] \o FlattenFrom(seqs, i + 1)
Flatten(seqs) == FlattenFrom(seqs, 1)

IsWrite == op.kind \in {"addVectors", "addDocuments"}
\* createInsertChunks has returned: chunks holds its result
ChunksReturned == IsWrite /\ pc \in {"insertChunks", "awaitExecute", "idle"}
ByteSize(chunk) == joinBytes(chunk)
Oversized(statement) == 10 * getStringBytes(statement) > maxMbSize

ExecuteCalls == SelectSeq(calls, LAMBDA c : c.api = "execute")
Succeeded(c) == c.returned /\ ~c.error.isError
Failed(c) == c.returned /\ c.error.isError

\* C1: the chunks of createInsertChunks, concatenated in order, are the input
\* statement list, and the last input statement is in the final chunk.
C1_ChunksConcatenateToInput ==
  ChunksReturned =>
    /\ Flatten(chunks) = insertStatements
    /\ Len(insertStatements) > 0 =>
         /\ Len(chunks) > 0
         /\ Len(chunks[Len(chunks)]) > 0
         /\ chunks[Len(chunks)][Len(chunks[Len(chunks)])]
              = insertStatements[Len(insertStatements)]

\* C2: an addVectors call whose execute calls all succeeded has sent exactly one
\* INSERT statement per input index, the i-th sent statement being built from
\* document i and vector i.
C2_EveryRowSentOncePaired ==
  (pc = "idle" /\ op.kind = "addVectors" /\ outcome.status = "ok") =>
    LET vectors == op.args.vectors
        documents == op.args.documents
        sent == Flatten([j \in 1..Len(ExecuteCalls) |-> ExecuteCalls[j].arg])
    IN /\ Len(sent) = Len(vectors)
       /\ \A i \in 1..Len(vectors) :
            /\ sent[i].kind = "INSERT"
            /\ sent[i].values[1].value.key = documents[i].pageContent.key
            /\ sent[i].values[2].value = vectors[i]
            /\ ~expandedMetadata => sent[i].values[3].value = documents[i].metadata

\* C6: insertChunks issues one execute call per chunk, in chunk order, each only
\* after the previous one returned without error; a failed call is the last call
\* of the write, which then raises; the store keeps what the earlier calls applied.
C6_ChunksExecutedInSequence ==
  IsWrite =>
    LET ex == ExecuteCalls
    IN /\ Len(ex) <= Len(chunks)
       /\ \A j \in 1..Len(ex) : ex[j].arg = chunks[j]
       /\ \A j \in 1..(Len(ex) - 1) : Succeeded(ex[j])
       /\ stored = Flatten([j \in 1..Len(ex) |->
                              IF Succeeded(ex[j]) THEN chunks[j] ELSE <<>>])
       /\ (Len(ex) > 0 /\ Failed(ex[Len(ex)])) =>
            (pc = "idle" /\ outcome.status = "raised")
       /\ (pc = "idle" /\ outcome.status = "ok") =>
            (Len(ex) = Len(chunks) /\ \A j \in 1..Len(ex) : Succeeded(ex[j]))

\* a write whose second chunk failed after the first was applied, with a third
\* chunk that is never sent
C6_Witness ==
  /\ IsWrite
  /\ pc = "idle"
  /\ outcome.status = "raised"
  /\ Len(chunks) >= 3
  /\ Len(ExecuteCalls) = 2
  /\ Succeeded(ExecuteCalls[1])
  /\ Failed(ExecuteCalls[2])
  /\ Len(stored) > 0

\* C9: every chunk is at most maxMbSize bytes long (its statements joined with a
\* space), unless it is one statement that alone exceeds maxMbSize.
C9_ChunkWithinMaxBytes ==
  ChunksReturned =>
    \A j \in 1..Len(chunks) :
      \/ 10 * ByteSize(chunks[j]) <= maxMbSize
      \/ Len(chunks[j]) = 1 /\ Oversized(chunks[j][1])

\* C10: every chunk holds at most maxChunkLength statements.
C10_ChunkWithinMaxCount ==
  ChunksReturned => \A j \in 1..Len(chunks) : Len(chunks[j]) <= maxChunkLength

\* the count limit closed a chunk: a full chunk from a longer input
C10_Witness ==
  /\ ChunksReturned
  /\ Len(insertStatements) > maxChunkLength
  /\ \E j \in 1..Len(chunks) : Len(chunks[j]) = maxChunkLength

\* the call writes the three statements of 0.5 MiB, 0.5 MiB and 0.1 MiB
IsExample ==
  /\ Len(insertStatements) = 3
  /\ \A i \in 1..3 : getStringBytes(insertStatements[i]) = ExampleSizes[i]

\* C14: three statements s1, s2, s3 of 0.5 MiB, 0.5 MiB and 0.1 MiB are chunked,
\* under the limit of 0.8 MiB, into [[s1], [s2, s3]].
C14_ExampleChunks ==
  (ChunksReturned /\ IsExample) =>
    chunks = <<<<insertStatements[1]>>, <<insertStatements[2], insertStatements[3]>>>>

\* the three statements were chunked, the first one alone
C14_Witness ==
  /\ ChunksReturned
  /\ IsExample
  /\ 10 * joinBytes(insertStatements) > maxMbSize
  /\ Len(chunks) = 2
  /\ Len(chunks[1]) = 1

(***************************************************************************)
(* Properties of the operations (Spec).                                    *)
(***************************************************************************)
LastCall == calls[Len(calls)]
IsSetup == op.kind = "setupDatabase"

\* C5: when the query call of a similarity search or of a full-text search
\* returns an error and no data, the search returns one result: a document tagged
\* error whose content is the error, with score 0.
C5_QueryFailureGivesErrorResult ==
  (/\ op.kind \in {"AzionSimilaritySearch", "AzionFullTextSearch"}
   /\ Len(calls) > 0
   /\ LastCall.api = "query"
   /\ Failed(LastCall)) =>
    /\ pc = "idle"
    /\ outcome.status = "ok"
    /\ Len(result) = 1
    /\ result[1].searchtype = "error"
    /\ result[1].score = 0
    /\ result[1].pageContent = LastCall.error

\* C7: a setupDatabase call that follows a successful setupDatabase call with the
\* same options issues no execute call.
C7_SecondSetupCreatesNothing ==
  (/\ IsSetup
   /\ prev.kind = "setupDatabase"
   /\ prev.status = "ok"
   /\ prev.options = op.options) =>
    \A j \in 1..Len(calls) : calls[j].api # "execute"

\* the second of two hybrid setups with the same options has returned after its
\* existence check
C7_Witness ==
  /\ IsSetup
  /\ prev.kind = "setupDatabase"
  /\ prev.status = "ok"
  /\ prev.options = op.options
  /\ op.options.mode = "hybrid"
  /\ pc = "idle"
  /\ outcome.status = "ok"
  /\ LastCall.api = "getTables"
  /\ Succeeded(LastCall)
  /\ {MainTable, FtsTable} \subseteq tables

\* C8: in setupDatabase and in a write, a call of the database service that
\* returns an error is the last call of the operation, and the operation raises
\* with the message of that error.
C8_BackendErrorRaisedWithMessage ==
  (IsSetup \/ IsWrite) =>
    \A j \in 1..Len(calls) :
      Failed(calls[j]) =>
        /\ j = Len(calls)
        /\ pc = "idle"
        /\ outcome.status = "raised"
        /\ outcome.message = calls[j].error.message

\* a setup whose creation batch failed at the service and that raised the
\* service's message
C8_Witness ==
  /\ IsSetup
  /\ pc = "idle"
  /\ outcome.status = "raised"
  /\ Len(calls) > 0
  /\ LastCall.api = "execute"
  /\ Failed(LastCall)
  /\ LastCall.error \in Errors
  /\ outcome.message = LastCall.error.message

IsHybrid == op.kind = "AzionHybridSearch"
IsQueryOf(c, searchtype) == c.api = "query" /\ c.arg.searchtype = searchtype

\* C12 as stated: in a hybrid search the full-text query is the first external
\* call, and the embedding call and the similarity query are issued only after
\* the full-text query returned.
C12_FullTextQueryIsFirstCall ==
  (IsHybrid /\ Len(calls) > 0) =>
    /\ IsQueryOf(calls[1], "fulltextsearch")
    /\ \A j \in 1..Len(calls) :
         (calls[j].api = "embedQuery" \/ IsQueryOf(calls[j], "similarity")) =>
           (j > 1 /\ calls[1].returned)

\* C12, amended: a hybrid search calls the embeddings provider first, then sends
\* the full-text query, then the similarity query, each call issued only after
\* the one before it returned, the similarity query only after the full-text
\* query returned without error; it makes no other call, and in its result every
\* full-text entry precedes every similarity entry.
C12_HybridCallsInSequence ==
  IsHybrid =>
    /\ Len(calls) \in 1..3
    /\ calls[1].api = "embedQuery"
    /\ Len(calls) >= 2 =>
         /\ Succeeded(calls[1])
         /\ IsQueryOf(calls[2], "fulltextsearch")
         /\ calls[2].arg.k = op.args.kfts
    /\ Len(calls) >= 3 =>
         /\ calls[2].returned
         /\ ~calls[2].error.isError
         /\ IsQueryOf(calls[3], "similarity")
         /\ calls[3].arg.k = op.args.kvector
    /\ (pc = "idle" /\ outcome.status = "ok") =>
         /\ Len(calls) = 3
         /\ \A j \in 1..3 : Succeeded(calls[j])
         /\ \A i, j \in 1..Len(result) :
              (result[i].searchtype = "similarity" /\ result[j].searchtype = "fulltextsearch")
                => j < i

\* a hybrid search returned a result that holds an entry of each channel
C12_Witness ==
  /\ IsHybrid
  /\ pc = "idle"
  /\ outcome.status = "ok"
  /\ Len(calls) = 3
  /\ Len(ftsResults) > 0
  /\ \E i, j \in 1..Len(result) :
       result[i].searchtype = "fulltextsearch" /\ result[j].searchtype = "similarity"

\* C13: a hybrid search one of whose queries failed returns, and its result holds
\* a document tagged error.
C13_HybridFailureGivesErrorResult ==
  (/\ IsHybrid
   /\ pc = "idle"
   /\ \E j \in 1..Len(calls) : calls[j].api = "query" /\ Failed(calls[j])) =>
    /\ outcome.status = "ok"
    /\ \E m \in 1..Len(result) : result[m].searchtype = "error"

\* the database service did not fail during the running operation: every error
\* it returned is the rejection of a statement
ServiceUp == \A j \in 1..Len(calls) : calls[j].error \notin Errors

\* C16: a setupDatabase call that follows a failed setupDatabase call with the
\* same options, and during which the service does not fail, returns and leaves
\* the main table and, in hybrid mode, the full-text table present.
C16_SetupAfterFailureSucceeds ==
  (/\ IsSetup
   /\ pc = "idle"
   /\ prev.kind = "setupDatabase"
   /\ prev.status = "raised"
   /\ prev.options = op.options
   /\ ServiceUp) =>
    /\ outcome.status = "ok"
    /\ MainTable \in tables
    /\ op.options.mode = "hybrid" => FtsTable \in tables

\* C20: every INSERT statement of a write call lists the columns content and
\* embedding followed by the metadata columns of the table: the columns declared
\* at setup in expanded mode, the one column metadata in plain mode.
C20_InsertColumnsAreTableColumns ==
  (IsWrite /\ MainTable \in tables) =>
    \A i \in 1..Len(insertStatements) :
      insertStatements[i].columnNames = <<"content", "embedding">> \o tableColumns

ApisOf(cs) == [j \in 1..Len(cs) |-> cs[j].api]
IsPrefix(a, b) == Len(a) <= Len(b) /\ a = SubSeq(b, 1, Len(a))
\* a table that the mode of the running setup requires is missing
RequiredTableMissing ==
  \/ MainTable \notin tables
  \/ op.options.mode = "hybrid" /\ FtsTable \notin tables

\* C22: the calls of a setupDatabase run are, in this order: getDatabases;
\* createDatabase, issued only while the database does not exist; the settling
\* delay; getTables, issued only after the delay has elapsed; and, only while a
\* required table is missing, the creation batch, which follows the embedding
\* call that gives the dimension.  Each call is issued after the one before it
\* returned without error.
C22_SetupCallOrder ==
  IsSetup =>
    LET created == Len(calls) >= 2 /\ calls[2].api = "createDatabase"
        expected == <<"getDatabases">>
                      \o (IF created THEN <<"createDatabase">> ELSE <<>>)
                      \o <<"setTimeout", "getTables", "embedQuery", "execute">>
    IN /\ Len(calls) >= 1
       /\ IsPrefix(ApisOf(calls), expected)
       /\ \A j \in 1..(Len(calls) - 1) : Succeeded(calls[j])
       /\ \A j \in 1..Len(calls) :
            /\ (calls[j].api = "createDatabase" /\ ~calls[j].returned) => ~dbExists
            /\ calls[j].api = "setTimeout" => dbExists
            /\ calls[j].api = "getTables" =>
                 (calls[j - 1].api = "setTimeout" /\ calls[j - 1].returned)
            /\ (calls[j].api \in {"embedQuery", "execute"} /\ ~calls[j].returned)
                 => RequiredTableMissing
       /\ (pc = "idle" /\ outcome.status = "ok") =>
            (LastCall.api \in {"getTables", "execute"} /\ ~RequiredTableMissing)

\* a setup that created the database, waited, listed the tables and created
\* them in hybrid mode
C22_Witness ==
  /\ IsSetup
  /\ pc = "idle"
  /\ outcome.status = "ok"
  /\ op.options.mode = "hybrid"
  /\ ApisOf(calls) =
       <<"getDatabases", "createDatabase", "setTimeout", "getTables", "embedQuery", "execute">>

\* what a creation batch creates, in order
CreatesOf(batch) == [j \in 1..Len(batch) |-> <<batch[j].kind, batch[j].object>>]
VectorBatch == <<<<"CREATE TABLE", MainTable>>, <<"CREATE INDEX", VectorIndex>>>>
HybridBatch ==
  VectorBatch \o <<<<"CREATE VIRTUAL TABLE", FtsTable>>,
                   <<"CREATE TRIGGER", InsertTrigger>>,
                   <<"CREATE TRIGGER", UpdateTrigger>>,
                   <<"CREATE TRIGGER", DeleteTrigger>>>>
ExecutePositions == {j \in 1..Len(calls) : calls[j].api = "execute"}

\* C23: a setupDatabase run issues at most one execute call, and exactly one
\* when it found a required table missing; its batch creates the main table,
\* the vector index and, in hybrid mode only, the full-text table and the
\* insert, update and delete triggers, in this order; a vector-mode batch that
\* was applied leaves no full-text table and no trigger.
C23_CreationBatch ==
  IsSetup =>
    /\ Cardinality(ExecutePositions) <= 1
    /\ \A j \in ExecutePositions :
         CreatesOf(calls[j].arg) =
           IF op.options.mode = "hybrid" THEN HybridBatch ELSE VectorBatch
    /\ (pc = "idle" /\ outcome.status = "ok" /\ ExecutePositions = {}) =>
         ~RequiredTableMissing
    /\ \A j \in ExecutePositions :
         (Succeeded(calls[j]) /\ op.options.mode = "vector") =>
           tables = {MainTable, VectorIndex}

\* a vector-mode setup whose batch of two statements was applied
C23_Witness ==
  /\ IsSetup
  /\ pc = "idle"
  /\ outcome.status = "ok"
  /\ op.options.mode = "vector"
  /\ LastCall.api = "execute"
  /\ Len(LastCall.arg) = 2
  /\ tables = {MainTable, VectorIndex}

OnceApis ==
  {"getDatabases", "createDatabase", "setTimeout", "getTables", "embedQuery", "embedDocuments"}
PositionsOf(api) == {j \in 1..Len(calls) : calls[j].api = api}

\* C24: within one operation no external call is issued again, neither after
\* it failed nor after it succeeded: a call is issued only after the one
\* before it returned, each list, create, delay and embedding call and each
\* query of a search type is issued at most once, a setup issues at most one
\* execute call, and the j-th execute call of a write is the one of the j-th
\* chunk.
C24_NoCallReissued ==
  /\ \A j \in 1..(Len(calls) - 1) : calls[j].returned
  /\ \A api \in OnceApis : Cardinality(PositionsOf(api)) <= 1
  /\ \A searchtype \in SearchTypes :
       Cardinality({j \in PositionsOf("query") : calls[j].arg.searchtype = searchtype}) <= 1
  /\ ~IsWrite => Len(ExecuteCalls) <= 1
  /\ IsWrite =>
       /\ Len(ExecuteCalls) <= Len(chunks)
       /\ \A j \in 1..Len(ExecuteCalls) : ExecuteCalls[j].arg = chunks[j]
       /\ \A j \in 1..(Len(ExecuteCalls) - 1) : Succeeded(ExecuteCalls[j])

\* a write of two chunks whose second execute call failed: the write ended
\* with two execute calls
C24_Witness ==
  /\ IsWrite
  /\ pc = "idle"
  /\ Len(chunks) = 2
  /\ Len(ExecuteCalls) = 2
  /\ Failed(ExecuteCalls[2])

\* C26: no execute call of a write carries an empty list of statements.
C26_NoEmptyExecute ==
  IsWrite => \A j \in 1..Len(ExecuteCalls) : Len(ExecuteCalls[j].arg) > 0

IsSearch == op.kind \in {"AzionSimilaritySearch", "AzionFullTextSearch", "AzionHybridSearch"}
StoreApis == {"getDatabases", "createDatabase", "getTables", "execute", "query"}
StoreCalls == SelectSeq(calls, LAMBDA c : c.api \in StoreApis)

\* what the store is asked to do during a search and during a write
OnlyQueriesAndInserts ==
  /\ IsSearch =>
       \A j \in 1..Len(StoreCalls) :
         StoreCalls[j].api = "query" /\ StoreCalls[j].arg.kind = "SELECT"
  /\ IsWrite =>
       \A j \in 1..Len(StoreCalls) :
         /\ StoreCalls[j].api = "execute"
         /\ \A i \in 1..Len(StoreCalls[j].arg) : StoreCalls[j].arg[i].kind = "INSERT"

\* what a step of a search and a step of a write leave as it is
StoreFrame ==
  /\ IsSearch' => UNCHANGED <<dbExists, tables, tableColumns, stored>>
  /\ IsWrite' => UNCHANGED <<dbExists, tables, tableColumns>>

\* C27: during a search the only calls to the store are query calls of SELECT
\* statements, and no step of a search changes the database, its tables or
\* its rows; during a write the only calls to the store are execute calls
\* whose statements are all INSERT statements, and no step of a write changes
\* the database or its tables.  The calls to the embeddings provider
\* (embedQuery, embedDocuments) are not calls to the store.
C27_SearchesReadWritesInsert == [](OnlyQueriesAndInserts) /\ [][StoreFrame]_vars

\* a hybrid search on a store that is set up returned after its two queries
C27_Witness ==
  /\ IsHybrid
  /\ pc = "idle"
  /\ outcome.status = "ok"
  /\ Len(StoreCalls) = 2
  /\ FtsTable \in tables

\* C28: createInsertChunks, once entered, returns: the write reaches the call
\* of insertChunks, and when the loop was taken the list of the remaining
\* statements is empty then.
C28_CreateInsertChunksTerminates ==
  (pc = "createInsertChunks") ~>
    (pc = "insertChunks" /\ (fitsOneChunk(insertStatements) \/ originalStatements = <<>>))

\* the loop has consumed a list of more than maxChunkLength statements and
\* createInsertChunks has returned its chunks
C28_Witness ==
  /\ IsWrite
  /\ pc = "insertChunks"
  /\ chunkIdx = 1
  /\ Len(insertStatements) > maxChunkLength
  /\ originalStatements = <<>>
  /\ Len(chunks) >= 2

(***************************************************************************)
(* Properties of the MATCH expression (SpecMatch).                         *)
(***************************************************************************)
IsFullTextQuery(c) == c.api = "query" /\ c.arg.searchtype = "fulltextsearch"
OperandsOf(match) == split(match, "OR")
IsEmptyOperand(operand) == \A j \in 1..Len(operand) : operand[j] \notin Alphanumerics

HasWord(query) == \E j \in 1..Len(query) : query[j] \in Alphanumerics

\* C25: the MATCH expression of the full-text search of a query that has a
\* word has no empty operand: every piece of it between the start, the ORs and
\* the end holds a letter or a digit, so that it has no leading OR, no trailing
\* OR and no two adjacent ORs.
C25_MatchHasNoEmptyOperand ==
  \A j \in 1..Len(calls) :
    (op.kind = "AzionFullTextSearch" /\ HasWord(op.args.query) /\ IsFullTextQuery(calls[j])) =>
      \A h \in 1..Len(OperandsOf(calls[j].arg.match)) :
        ~IsEmptyOperand(OperandsOf(calls[j].arg.match)[h])

(***************************************************************************)
(* Properties of the statement builder (SpecStatements).                   *)
(***************************************************************************)
Quotes == {SingleQuote, DoubleQuote}
\* createStatements has run: the statements are built or the building threw
Built == op.kind = "addVectors" /\ pc # "awaitMapRows"
BuildThrew == Built /\ pc = "idle" /\ outcome = [status |-> "raised", message |-> "TypeError"]
\* row i lacks a metadata key that another row of the call carries
LacksKey(documents, i) ==
  \E k \in 1..Len(documents) : \E j \in 1..Len(documents[k].metadata) :
    ~hasKey(documents[i].metadata, documents[k].metadata[j].key)

RECURSIVE CharsOfEntries(_, _)
CharsOfEntries(entries, e) ==
  IF e > Len(entries) THEN {}
  ELSE {entries[e].value.chars[j] : j \in 1..Len(entries[e].value.chars)}
       \cup CharsOfEntries(entries, e + 1)
CharsOf(rendered) ==
  IF rendered.render = "escaped"
  THEN {rendered.value.chars[j] : j \in 1..Len(rendered.value.chars)}
  ELSE IF rendered.render = "raw" THEN CharsOfEntries(rendered.value, 1)
  ELSE {}

\* C21: no statement that was built holds a single quote taken from the content
\* or from a metadata value of its document, in plain and in expanded mode.
C21_NoSingleQuoteFromDocument ==
  (Built /\ ~BuildThrew) =>
    \A i \in 1..Len(insertStatements) :
      \A j \in 1..Len(insertStatements[i].values) :
        SingleQuote \notin CharsOf(insertStatements[i].values[j])

\* C19: in expanded mode the building of the statements does not throw, and a
\* metadata column that a row lacks is rendered as null in the row's statement.
C19_MissingKeyRenderedNull ==
  (Built /\ expandedMetadata) =>
    /\ ~BuildThrew
    /\ Len(insertStatements) = Len(op.args.documents)
    /\ \A i \in 1..Len(insertStatements) :
         \A j \in 3..Len(insertStatements[i].columnNames) :
           ~hasKey(op.args.documents[i].metadata, insertStatements[i].columnNames[j]) =>
             insertStatements[i].values[j].value = Null

====
